---- MODULE Spec2Model ----
(***************************************************************************)
(* A model of the multi-token ledger (src/src/lib.rs), its escrow receiver *)
(* (src/src/defi.rs, src/src/defi_test.rs) and the transfer-call saga      *)
(* Move -> Notify -> Settle that links them (src/src/receiver.rs,          *)
(* src/src/resolver.rs).                                                   *)
(*                                                                         *)
(* Every contract invocation is one atomic step.  A call that panics       *)
(* leaves the contract state as it was (the runtime discards the writes of *)
(* a failed receipt); what the call did is recorded in `last`.             *)
(***************************************************************************)
EXTENDS Integers, Sequences, FiniteSets, TLC

\* ---------------------------------------------------------------- bounds
\* Scaled width of Balance = u128: the largest representable balance.
MaxSupply == 2
\* Scaled width of next_token_id: u64: the largest representable counter.
MaxTokenId == 2
\* Longest token-id / amount list passed to a batch call.
MaxLen == 3
\* Number of transfer-call sagas started in one behaviour.
MaxSagas == 1
\* Number of tokens minted in the behaviours that run sagas.
SagaTokens == 1
\* Scaled width of usize: the largest count skip() and take() are given.
MaxUsize == 3

U128Max == MaxSupply
U64Max == MaxTokenId

\* ---------------------------------------------------------------- accounts
Ledger == "mt"          \* env::current_account_id() of MultiTokenContract
Escrow == "defi"        \* the account the DeFi contract is deployed on
Admin == "alice"        \* accounts(OWNER_ACCOUNT)
Users == {"alice", "bob"}
Accounts == Users \cup {Escrow}

\* Token ids are the decimal strings of the counter values; the model keeps
\* the number the string denotes.  Id 0 is a well-formed id that mt_mint never
\* issues (the counter is incremented before it is used).
TokenIds == 0..MaxTokenId
Amounts == 0..U128Max

Min(a, b) == IF a < b THEN a ELSE b

RECURSIVE SeqsUpTo(_, _)
SeqsUpTo(S, n) ==
    IF n = 0 THEN {<< >>}
    ELSE LET shorter == SeqsUpTo(S, n - 1)
         IN  shorter \cup {Append(s, x) : s \in {q \in shorter : Len(q) = n - 1}, x \in S}

VARIABLES
    owner_id,            \* MultiTokenContract.owner_id
    total_supply,        \* TokenId -> Balance
    owner_by_id,         \* TokenId -> AccountId
    balances_per_token,  \* TokenId -> (AccountId -> u128), absent key = no entry
    tokens_per_owner,    \* AccountId -> set of TokenId
    next_token_id,       \* u64 counter
    sagas,               \* the promise chains of the transfer calls, in call order
    last                 \* what the latest contract invocation was and how it ended

vars == <<owner_id, total_supply, owner_by_id, balances_per_token,
          tokens_per_owner, next_token_id, sagas, last>>

ledger == <<owner_id, total_supply, owner_by_id, balances_per_token,
            tokens_per_owner, next_token_id>>

\* ---------------------------------------------------------------- helpers
EmptyMap == [x \in {} |-> 0]

\* LookupMap::insert on the nested map of one token.
Insert(bpt, token_id, account_id, value) ==
    [bpt EXCEPT ![token_id] = (account_id :> value) @@ @]

\* How a call ended: the error (or "ok"), the balances as the call left them
\* when it stopped, and the number of pairs it had applied by then.
Outcome(e, bpt, n) == [err |-> e, bpt |-> bpt, k |-> n]

\* internal_unwrap_balance_of: panics for a token that has no balance map
\* (TokenExists is its expect), and reads 0 for an account with no entry.
TokenExists(bpt, token_id) == token_id \in DOMAIN bpt

internal_unwrap_balance_of(bpt, token_id, account_id) ==
    IF account_id \in DOMAIN bpt[token_id] THEN bpt[token_id][account_id] ELSE 0

\* internal_transfer that credits the receiver and leaves the sender's balance.
internal_transfer_NoDebit(bpt, sender_id, receiver_id, token_id, amount) ==
    IF sender_id = receiver_id \/ ~(amount > 0) \/ ~TokenExists(bpt, token_id)
    THEN Outcome("rejected", bpt, 0)
    ELSE IF internal_unwrap_balance_of(bpt, token_id, sender_id) < amount
    THEN Outcome("InsufficientBalance", bpt, 0)
    ELSE Outcome("ok", Insert(bpt, token_id, receiver_id,
                    internal_unwrap_balance_of(bpt, token_id, receiver_id) + amount), 1)

\* internal_transfer with a wrapping subtraction in place of checked_sub.
internal_transfer_Unchecked(bpt, sender_id, receiver_id, token_id, amount) ==
    IF sender_id = receiver_id THEN Outcome("SameAccount", bpt, 0)
    ELSE IF ~(amount > 0) THEN Outcome("ZeroAmount", bpt, 0)
    ELSE IF ~TokenExists(bpt, token_id) THEN Outcome("TokenNotFound", bpt, 0)
    ELSE LET debited == Insert(bpt, token_id, sender_id,
                 internal_unwrap_balance_of(bpt, token_id, sender_id) - amount)
         IN  Outcome("ok", Insert(debited, token_id, receiver_id,
                 internal_unwrap_balance_of(debited, token_id, receiver_id) + amount), 1)

\* internal_transfer that debits the sender and credits nobody.
internal_transfer_NoCredit(bpt, sender_id, receiver_id, token_id, amount) ==
    IF sender_id = receiver_id THEN Outcome("SameAccount", bpt, 0)
    ELSE IF ~(amount > 0) THEN Outcome("ZeroAmount", bpt, 0)
    ELSE IF ~TokenExists(bpt, token_id) THEN Outcome("TokenNotFound", bpt, 0)
    ELSE LET balance == internal_unwrap_balance_of(bpt, token_id, sender_id)
         IN  IF balance < amount THEN Outcome("InsufficientBalance", bpt, 0)
             ELSE Outcome("ok", Insert(bpt, token_id, sender_id, balance - amount), 1)

\* internal_transfer without its two require! lines.
internal_transfer_Lenient(bpt, sender_id, receiver_id, token_id, amount) ==
    IF ~TokenExists(bpt, token_id) THEN Outcome("TokenNotFound", bpt, 0)
    ELSE LET balance == internal_unwrap_balance_of(bpt, token_id, sender_id)
         IN  IF balance < amount THEN Outcome("InsufficientBalance", bpt, 0)
             ELSE LET debited == Insert(bpt, token_id, sender_id, balance - amount)
                      receiver_balance ==
                          internal_unwrap_balance_of(debited, token_id, receiver_id) + amount
                  IN  IF receiver_balance > U128Max
                      THEN Outcome("Overflow", debited, 0)
                      ELSE Outcome("ok", Insert(debited, token_id, receiver_id, receiver_balance), 1)

\* internal_transfer that writes the token's balance map anew, with the two
\* balances it changed and no other.
internal_transfer_Wipe(bpt, sender_id, receiver_id, token_id, amount) ==
    IF sender_id = receiver_id THEN Outcome("SameAccount", bpt, 0)
    ELSE IF ~(amount > 0) THEN Outcome("ZeroAmount", bpt, 0)
    ELSE IF ~TokenExists(bpt, token_id) THEN Outcome("TokenNotFound", bpt, 0)
    ELSE LET balance == internal_unwrap_balance_of(bpt, token_id, sender_id)
             receiver_balance ==
                 internal_unwrap_balance_of(bpt, token_id, receiver_id) + amount
         IN  IF balance < amount THEN Outcome("InsufficientBalance", bpt, 0)
             ELSE IF receiver_balance > U128Max THEN Outcome("Overflow", bpt, 0)
             ELSE Outcome("ok", [bpt EXCEPT ![token_id] =
                                    (sender_id :> balance - amount)
                                    @@ (receiver_id :> receiver_balance)], 1)

\* internal_transfer, in the order of its checks.
internal_transfer(bpt, sender_id, receiver_id, token_id, amount) ==
    IF sender_id = receiver_id THEN Outcome("SameAccount", bpt, 0)
    ELSE IF ~(amount > 0) THEN Outcome("ZeroAmount", bpt, 0)
    ELSE IF ~TokenExists(bpt, token_id) THEN Outcome("TokenNotFound", bpt, 0)
    ELSE LET balance == internal_unwrap_balance_of(bpt, token_id, sender_id)
         IN  IF balance < amount THEN Outcome("InsufficientBalance", bpt, 0)
             ELSE LET debited == Insert(bpt, token_id, sender_id, balance - amount)
                      receiver_balance ==
                          internal_unwrap_balance_of(debited, token_id, receiver_id) + amount
                  IN  IF receiver_balance > U128Max
                      THEN Outcome("Overflow", debited, 0)
                      ELSE Outcome("ok", Insert(debited, token_id, receiver_id, receiver_balance), 1)

\* The zip(...).for_each of mt_batch_transfer from pair i on: mt_transfer once
\* per pair, stopping at the first pair that panics.
RECURSIVE BatchPairs(_, _, _, _, _, _)
BatchPairs(bpt, sender_id, receiver_id, token_ids, amounts, i) ==
    IF i > Min(Len(token_ids), Len(amounts)) THEN Outcome("ok", bpt, i - 1)
    ELSE LET r == internal_transfer(bpt, sender_id, receiver_id, token_ids[i], amounts[i])
         IN  IF r.err # "ok" THEN Outcome(r.err, r.bpt, i - 1)
             ELSE BatchPairs(r.bpt, sender_id, receiver_id, token_ids, amounts, i + 1)

\* The require! at the head of mt_batch_transfer, as written.
LengthCheck(token_ids, amounts) == Len(token_ids) # Len(amounts)

batch_transfer(bpt, sender_id, receiver_id, token_ids, amounts) ==
    IF ~LengthCheck(token_ids, amounts) THEN Outcome("MismatchedLengths", bpt, 0)
    ELSE BatchPairs(bpt, sender_id, receiver_id, token_ids, amounts, 1)

\* A runtime that keeps the writes of a call that panicked.
Commit_Keep(before, r) == r.bpt

\* What a finished call leaves in storage: its writes when it returned, the
\* state before the call when it panicked.
Commit(before, r) == IF r.err = "ok" THEN r.bpt ELSE before

\* The record of a call: which method ran, how it ended and how many pairs it
\* had applied by then; for a step of a saga, which saga, and for
\* mt_resolve_transfer, what it returned.
Call(op, r) ==
    [op |-> op, err |-> r.err, k |-> r.k, saga |-> 0, ret |-> << >>]

Failed(e) == Outcome(e, EmptyMap, 0)

\* ---------------------------------------------------------------- messages
\* The msg of a transfer call is the JSON text of an ExchangeAction, or text
\* that does not parse as one ("Invalid").
Message(kind, token_ids, amounts, change_amounts) ==
    [kind |-> kind, token_ids |-> token_ids, amounts |-> amounts,
     change_amounts |-> change_amounts]

NoMessage == Message("-", << >>, << >>, << >>)

\* A scheduled escrow_transfer call, or none.
EscrowCall(receiver_id, token_ids, amounts, change_amounts) ==
    [receiver_id |-> receiver_id, token_ids |-> token_ids, amounts |-> amounts,
     change_amounts |-> change_amounts]

NoEscrowCall == EscrowCall("-", << >>, << >>, << >>)

\* vec![0.into(); n]
Zeros(n) == [i \in 1..n |-> 0]

\* DeFi::mt_on_transfer without the require! on its caller.
mt_on_transfer_Trusting(predecessor, sender_id, msg) ==
    IF msg.kind = "Swap"
    THEN [err |-> "ok",
          esc |-> EscrowCall(sender_id, msg.token_ids, msg.amounts, Zeros(Len(msg.amounts)))]
    ELSE IF msg.kind = "SwapWithChange"
    THEN IF Len(msg.amounts) # Len(msg.change_amounts)
         THEN [err |-> "MismatchedLengths", esc |-> NoEscrowCall]
         ELSE [err |-> "ok",
               esc |-> EscrowCall(sender_id, msg.token_ids, msg.amounts, msg.change_amounts)]
    ELSE IF msg.kind = "Fail"
    THEN [err |-> "DeliberateFailure", esc |-> NoEscrowCall]
    ELSE [err |-> "UnparseableMessage", esc |-> NoEscrowCall]

\* DeFi::mt_on_transfer: the caller check, the parse of msg, and the
\* escrow_transfer call the action schedules.
mt_on_transfer(predecessor, sender_id, msg) ==
    IF predecessor # Ledger
    THEN [err |-> "UntrustedCaller", esc |-> NoEscrowCall]
    ELSE IF msg.kind = "Swap"
    THEN [err |-> "ok",
          esc |-> EscrowCall(sender_id, msg.token_ids, msg.amounts, Zeros(Len(msg.amounts)))]
    ELSE IF msg.kind = "SwapWithChange"
    THEN IF Len(msg.amounts) # Len(msg.change_amounts)
         THEN [err |-> "MismatchedLengths", esc |-> NoEscrowCall]
         ELSE [err |-> "ok",
               esc |-> EscrowCall(sender_id, msg.token_ids, msg.amounts, msg.change_amounts)]
    ELSE IF msg.kind = "Fail"
    THEN [err |-> "DeliberateFailure", esc |-> NoEscrowCall]
    ELSE [err |-> "UnparseableMessage", esc |-> NoEscrowCall]

\* ---------------------------------------------------------------- sagas
\* One transfer call's promise chain: mt_on_transfer on the receiver, then
\* mt_resolve_transfer on the ledger.
\*   stage   "notify": mt_on_transfer is to be delivered;
\*           "escrow": the receiver's escrow_transfer call is to be delivered;
\*           "settle": the chain has ended, mt_resolve_transfer is to run;
\*           "done":   mt_resolve_transfer has run.
\*   chain   "pending", or how the notification chain ended: "ok" / "failed"
\*   unused  what the chain resolved with
\*   pre_s, pre_r  the sender's and receiver's balances of each pair's token
\*           before the call
\*   log     the steps of the saga, in the order they ran
Pairs(token_ids, amounts) == 1..Min(Len(token_ids), Len(amounts))

\* A chain whose mt_resolve_transfer is scheduled beside mt_on_transfer and
\* not behind it.
Promises_Unchained(sender_id, receiver_id, token_ids, amounts, msg, before) ==
    [sender |-> sender_id, receiver |-> receiver_id,
     token_ids |-> token_ids, amounts |-> amounts,
     stage |-> "settle", msg |-> msg, esc |-> NoEscrowCall,
     chain |-> "pending", unused |-> << >>,
     pre_s |-> [i \in Pairs(token_ids, amounts) |->
                   internal_unwrap_balance_of(before, token_ids[i], sender_id)],
     pre_r |-> [i \in Pairs(token_ids, amounts) |->
                   internal_unwrap_balance_of(before, token_ids[i], receiver_id)],
     log |-> <<"move">>]

Promises(sender_id, receiver_id, token_ids, amounts, msg, before) ==
    [sender |-> sender_id, receiver |-> receiver_id,
     token_ids |-> token_ids, amounts |-> amounts,
     stage |-> "notify", msg |-> msg, esc |-> NoEscrowCall,
     chain |-> "pending", unused |-> << >>,
     pre_s |-> [i \in Pairs(token_ids, amounts) |->
                   internal_unwrap_balance_of(before, token_ids[i], sender_id)],
     pre_r |-> [i \in Pairs(token_ids, amounts) |->
                   internal_unwrap_balance_of(before, token_ids[i], receiver_id)],
     log |-> <<"move">>]

\* The promise chain mt_transfer_call returns: mt_on_transfer(sender,
\* [token_id], [amount], msg) .then( mt_resolve_transfer(sender, receiver,
\* [token_id], [amount]) ).
transfer_call_promises(sender_id, receiver_id, token_id, amount, msg, before) ==
    Promises(sender_id, receiver_id, <<token_id>>, <<amount>>, msg, before)

\* The same for mt_batch_transfer_call, which hands on the lists it was given.
batch_transfer_call_promises(sender_id, receiver_id, token_ids, amounts, msg, before) ==
    Promises(sender_id, receiver_id, token_ids, amounts, msg, before)

InFlight(s) == s.stage # "done"

\* What is kept of a saga once mt_resolve_transfer has run.
Settled(s) ==
    [Promises("-", "-", << >>, << >>, NoMessage, EmptyMap) EXCEPT
        !.stage = "done", !.chain = s.chain, !.unused = s.unused,
        !.log = Append(s.log, "resolve")]

\* Where the next saga is kept: in place of the first settled one, or behind
\* the others.
Slot(ss) ==
    IF \E i \in DOMAIN ss : ~InFlight(ss[i])
    THEN CHOOSE i \in DOMAIN ss : ~InFlight(ss[i]) /\ \A j \in 1..(i - 1) : InFlight(ss[j])
    ELSE Len(ss) + 1

Put(ss, i, s) == IF i = Len(ss) + 1 THEN Append(ss, s) ELSE [ss EXCEPT ![i] = s]

\* ---------------------------------------------------------------- settle
\* mt_resolve_transfer is declared in src/src/resolver.rs and scheduled by the
\* transfer calls; its body is not part of the sources.  It is modelled from
\* its documentation: callable by the contract itself only; a failed chain
\* leaves every amount unused; the unused part of each pair, bounded by what
\* the receiver still holds, goes back to the sender; the result is what the
\* receiver keeps of each pair.
Unused(s, i) ==
    IF s.chain # "ok" \/ i > Len(s.unused) THEN s.amounts[i]
    ELSE Min(s.unused[i], s.amounts[i])

\* The settlement that asks for the whole unused amount, whatever the
\* receiver still holds.
RECURSIVE ResolvePairs_Unbounded(_, _, _, _)
ResolvePairs_Unbounded(bpt, s, i, kept) ==
    IF i > Min(Len(s.token_ids), Len(s.amounts)) THEN [bpt |-> bpt, ret |-> kept]
    ELSE LET refund == Unused(s, i)
             r == internal_transfer(bpt, s.receiver, s.sender, s.token_ids[i], refund)
         IN  ResolvePairs_Unbounded(IF refund > 0 THEN Commit(bpt, r) ELSE bpt, s, i + 1,
                                    Append(kept, s.amounts[i] - refund))

RECURSIVE ResolvePairs(_, _, _, _)
ResolvePairs(bpt, s, i, kept) ==
    IF i > Min(Len(s.token_ids), Len(s.amounts)) THEN [bpt |-> bpt, ret |-> kept]
    ELSE LET held == IF TokenExists(bpt, s.token_ids[i])
                     THEN internal_unwrap_balance_of(bpt, s.token_ids[i], s.receiver)
                     ELSE 0
             refund == Min(Unused(s, i), held)
             r == internal_transfer(bpt, s.receiver, s.sender, s.token_ids[i], refund)
         IN  ResolvePairs(IF refund > 0 THEN Commit(bpt, r) ELSE bpt, s, i + 1,
                          Append(kept, s.amounts[i] - refund))

\* mt_resolve_transfer without the check of its caller.
mt_resolve_transfer_Open(predecessor, bpt, s) ==
    LET r == ResolvePairs(bpt, s, 1, << >>)
    IN  [err |-> "ok", bpt |-> r.bpt, ret |-> r.ret]

mt_resolve_transfer(predecessor, bpt, s) ==
    IF predecessor # Ledger
    THEN [err |-> "Unauthorized", bpt |-> bpt, ret |-> << >>]
    ELSE LET r == ResolvePairs(bpt, s, 1, << >>)
         IN  [err |-> "ok", bpt |-> r.bpt, ret |-> r.ret]

\* ---------------------------------------------------------------- init
Init ==
    /\ owner_id = Admin
    /\ total_supply = EmptyMap
    /\ owner_by_id = EmptyMap
    /\ balances_per_token = EmptyMap
    /\ tokens_per_owner = EmptyMap
    /\ next_token_id = 0
    /\ sagas = << >>
    /\ last = Call("new", Failed("ok"))

\* ---------------------------------------------------------------- actions
\* mt_mint without the assert_eq on its caller.
mt_mint_Open(caller, token_owner_id, supply) ==
    IF next_token_id + 1 > U64Max
    THEN /\ last' = Call("mt_mint", Failed("CounterOverflow"))
         /\ UNCHANGED <<ledger, sagas>>
    ELSE LET token_id == next_token_id + 1
         IN  /\ next_token_id' = token_id
             /\ total_supply' = (token_id :> supply) @@ total_supply
             /\ owner_by_id' = (token_id :> token_owner_id) @@ owner_by_id
             /\ balances_per_token' =
                    (token_id :> (token_owner_id :> supply)) @@ balances_per_token
             /\ last' = Call("mt_mint", Failed("ok"))
             /\ UNCHANGED <<owner_id, tokens_per_owner, sagas>>

\* mt_mint that records the supply and the owner and credits nobody.
mt_mint_Uncredited(caller, token_owner_id, supply) ==
    IF caller # owner_id
    THEN /\ last' = Call("mt_mint", Failed("Unauthorized"))
         /\ UNCHANGED <<ledger, sagas>>
    ELSE IF next_token_id + 1 > U64Max
    THEN /\ last' = Call("mt_mint", Failed("CounterOverflow"))
         /\ UNCHANGED <<ledger, sagas>>
    ELSE LET token_id == next_token_id + 1
         IN  /\ next_token_id' = token_id
             /\ total_supply' = (token_id :> supply) @@ total_supply
             /\ owner_by_id' = (token_id :> token_owner_id) @@ owner_by_id
             /\ balances_per_token' = (token_id :> EmptyMap) @@ balances_per_token
             /\ last' = Call("mt_mint", Failed("ok"))
             /\ UNCHANGED <<owner_id, tokens_per_owner, sagas>>

\* mt_mint that does not store the counter it advanced.
mt_mint_Reuse(caller, token_owner_id, supply) ==
    IF caller # owner_id
    THEN /\ last' = Call("mt_mint", Failed("Unauthorized"))
         /\ UNCHANGED <<ledger, sagas>>
    ELSE LET token_id == next_token_id + 1
         IN  /\ total_supply' = (token_id :> supply) @@ total_supply
             /\ owner_by_id' = (token_id :> token_owner_id) @@ owner_by_id
             /\ balances_per_token' =
                    (token_id :> (token_owner_id :> supply)) @@ balances_per_token
             /\ last' = Call("mt_mint", Failed("ok"))
             /\ UNCHANGED <<owner_id, tokens_per_owner, next_token_id, sagas>>

\* mt_mint that also enters the new id in the owner's set of tokens_per_owner.
mt_mint_Indexed(caller, token_owner_id, supply) ==
    IF caller # owner_id
    THEN /\ last' = Call("mt_mint", Failed("Unauthorized"))
         /\ UNCHANGED <<ledger, sagas>>
    ELSE IF next_token_id + 1 > U64Max
    THEN /\ last' = Call("mt_mint", Failed("CounterOverflow"))
         /\ UNCHANGED <<ledger, sagas>>
    ELSE LET token_id == next_token_id + 1
         IN  /\ next_token_id' = token_id
             /\ total_supply' = (token_id :> supply) @@ total_supply
             /\ owner_by_id' = (token_id :> token_owner_id) @@ owner_by_id
             /\ balances_per_token' =
                    (token_id :> (token_owner_id :> supply)) @@ balances_per_token
             /\ tokens_per_owner' =
                    (token_owner_id :>
                        ((IF token_owner_id \in DOMAIN tokens_per_owner
                          THEN tokens_per_owner[token_owner_id] ELSE {})
                         \cup {token_id}))
                    @@ tokens_per_owner
             /\ last' = Call("mt_mint", Failed("ok"))
             /\ UNCHANGED <<owner_id, sagas>>

mt_mint(caller, token_owner_id, supply) ==
    IF caller # owner_id
    THEN /\ last' = Call("mt_mint", Failed("Unauthorized"))
         /\ UNCHANGED <<ledger, sagas>>
    ELSE IF next_token_id + 1 > U64Max
    THEN /\ last' = Call("mt_mint", Failed("CounterOverflow"))
         /\ UNCHANGED <<ledger, sagas>>
    ELSE LET token_id == next_token_id + 1
         IN  /\ next_token_id' = token_id
             /\ total_supply' = (token_id :> supply) @@ total_supply
             /\ owner_by_id' = (token_id :> token_owner_id) @@ owner_by_id
             /\ balances_per_token' =
                    (token_id :> (token_owner_id :> supply)) @@ balances_per_token
             /\ last' = Call("mt_mint", Failed("ok"))
             /\ UNCHANGED <<owner_id, tokens_per_owner, sagas>>

\* A call that moves balances and schedules nothing: the balances it commits
\* and the record of the call.
Moves(op, r) ==
    /\ balances_per_token' = Commit(balances_per_token, r)
    /\ UNCHANGED sagas
    /\ last' = Call(op, r)
    /\ UNCHANGED <<owner_id, total_supply, owner_by_id, tokens_per_owner, next_token_id>>

mt_transfer(caller, receiver_id, token_id, amount) ==
    Moves("mt_transfer",
          internal_transfer(balances_per_token, caller, receiver_id, token_id, amount))

mt_batch_transfer(caller, receiver_id, token_ids, amounts) ==
    Moves("mt_batch_transfer",
          batch_transfer(balances_per_token, caller, receiver_id, token_ids, amounts))

\* escrow_transfer that pays out of the administrator's balance, whoever calls.
escrow_transfer_Owner(caller, receiver_id, token_ids, amounts, change_amounts) ==
    Moves("escrow_transfer",
          batch_transfer(balances_per_token, owner_id, receiver_id, token_ids, amounts))

\* EscrowTransfer for MultiTokenContract, called by any account: no check of
\* the caller, mt_batch_transfer out of the caller's balance.
escrow_transfer(caller, receiver_id, token_ids, amounts, change_amounts) ==
    Moves("escrow_transfer",
          batch_transfer(balances_per_token, caller, receiver_id, token_ids, amounts))

\* A transfer call that schedules its promise chain also when the Move has
\* panicked for want of balance.
Schedules_Unfunded(op, r, promises) ==
    LET scheduled == r.err \in {"ok", "InsufficientBalance"}
    IN  /\ balances_per_token' = Commit(balances_per_token, r)
        /\ sagas' = IF scheduled THEN Put(sagas, Slot(sagas), promises) ELSE sagas
        /\ last' = [Call(op, r) EXCEPT !.saga = IF scheduled THEN Slot(sagas) ELSE 0]
        /\ UNCHANGED <<owner_id, total_supply, owner_by_id, tokens_per_owner,
                       next_token_id>>

\* A transfer call: the Move, and when it has not panicked, the promise chain.
Schedules(op, r, promises) ==
    /\ balances_per_token' = Commit(balances_per_token, r)
    /\ sagas' = IF r.err = "ok"
                THEN Put(sagas, Slot(sagas), promises)
                ELSE sagas
    /\ last' = [Call(op, r) EXCEPT
                    !.saga = IF r.err = "ok" THEN Slot(sagas) ELSE 0]
    /\ UNCHANGED <<owner_id, total_supply, owner_by_id, tokens_per_owner, next_token_id>>

mt_transfer_call(caller, receiver_id, token_id, amount, msg) ==
    /\ Slot(sagas) <= MaxSagas
    /\ Schedules("mt_transfer_call",
                 internal_transfer(balances_per_token, caller, receiver_id, token_id, amount),
                 transfer_call_promises(caller, receiver_id, token_id, amount, msg,
                                        balances_per_token))

mt_batch_transfer_call(caller, receiver_id, token_ids, amounts, msg) ==
    /\ Slot(sagas) <= MaxSagas
    /\ Schedules("mt_batch_transfer_call",
                 batch_transfer(balances_per_token, caller, receiver_id, token_ids, amounts),
                 batch_transfer_call_promises(caller, receiver_id, token_ids, amounts, msg,
                                              balances_per_token))

\* Notify that reports a failed notification to the settlement as a success
\* with nothing unused.
Notify_Swallowed(i) ==
    /\ i \in DOMAIN sagas
    /\ sagas[i].stage = "notify"
    /\ LET s == sagas[i]
           r == IF s.receiver = Escrow
                THEN mt_on_transfer(Ledger, s.sender, s.msg)
                ELSE [err |-> "NoContract", esc |-> NoEscrowCall]
       IN  /\ sagas' = [sagas EXCEPT ![i] =
                  [s EXCEPT !.msg = NoMessage,
                            !.log = Append(@, "notify"),
                            !.stage = IF r.err = "ok" THEN "escrow" ELSE "settle",
                            !.chain = IF r.err = "ok" THEN "pending" ELSE "ok",
                            !.unused = Zeros(Len(s.amounts)),
                            !.esc = r.esc]]
           /\ last' = [Call("mt_on_transfer", Failed(r.err))
                          EXCEPT !.saga = i]
    /\ UNCHANGED ledger

\* Notify: the runtime delivers mt_on_transfer of saga i to the receiver.  Only
\* the escrow account runs a contract; on any other account the call fails.
Notify(i) ==
    /\ i \in DOMAIN sagas
    /\ sagas[i].stage = "notify"
    /\ LET s == sagas[i]
           r == IF s.receiver = Escrow
                THEN mt_on_transfer(Ledger, s.sender, s.msg)
                ELSE [err |-> "NoContract", esc |-> NoEscrowCall]
       IN  /\ sagas' = [sagas EXCEPT ![i] =
                  [s EXCEPT !.msg = NoMessage,
                            !.log = Append(@, "notify"),
                            !.stage = IF r.err = "ok" THEN "escrow" ELSE "settle",
                            !.chain = IF r.err = "ok" THEN "pending" ELSE "failed",
                            !.esc = r.esc]]
           /\ last' = [Call("mt_on_transfer", Failed(r.err))
                          EXCEPT !.saga = i]
    /\ UNCHANGED ledger

\* The escrow_transfer call the escrow scheduled in saga i runs on the ledger,
\* with the escrow as its caller; what it returns resolves the chain.
EscrowStep(i) ==
    /\ i \in DOMAIN sagas
    /\ sagas[i].stage = "escrow"
    /\ LET s == sagas[i]
           e == s.esc
           r == batch_transfer(balances_per_token, Escrow, e.receiver_id,
                               e.token_ids, e.amounts)
       IN  /\ balances_per_token' = Commit(balances_per_token, r)
           /\ sagas' = [sagas EXCEPT ![i] =
                  [s EXCEPT !.log = Append(@, "escrow"),
                            !.stage = "settle",
                            !.chain = IF r.err = "ok" THEN "ok" ELSE "failed",
                            !.unused = IF r.err = "ok" THEN e.change_amounts ELSE << >>]]
           /\ last' = [Call("escrow_transfer", r)
                          EXCEPT !.saga = i]
    /\ UNCHANGED <<owner_id, total_supply, owner_by_id, tokens_per_owner, next_token_id>>

\* Settle: the runtime runs the mt_resolve_transfer chained after the
\* notification of saga i, with the ledger as its own caller.
Settle(i) ==
    /\ i \in DOMAIN sagas
    /\ sagas[i].stage = "settle"
    /\ LET s == sagas[i]
           r == mt_resolve_transfer(Ledger, balances_per_token, s)
       IN  /\ balances_per_token' = r.bpt
           /\ sagas' = [sagas EXCEPT ![i] = Settled(s)]
           /\ last' = [Call("mt_resolve_transfer", Failed(r.err))
                          EXCEPT !.saga = i, !.ret = r.ret]
    /\ UNCHANGED <<owner_id, total_supply, owner_by_id, tokens_per_owner, next_token_id>>

\* mt_resolve_transfer called from outside, with arguments of the caller's
\* choosing and no promise result to read.
Request(sender_id, receiver_id, token_id, amount) ==
    [sender |-> sender_id, receiver |-> receiver_id,
     token_ids |-> <<token_id>>, amounts |-> <<amount>>,
     chain |-> "failed", unused |-> << >>]

ResolveBy(caller, sender_id, receiver_id, token_id, amount) ==
    LET r == mt_resolve_transfer(caller, balances_per_token,
                                 Request(sender_id, receiver_id, token_id, amount))
    IN  /\ balances_per_token' = r.bpt
        /\ UNCHANGED sagas
        /\ last' = [Call("mt_resolve_transfer", Failed(r.err))
                       EXCEPT !.ret = r.ret]
        /\ UNCHANGED <<owner_id, total_supply, owner_by_id, tokens_per_owner,
                       next_token_id>>

\* mt_on_transfer of the escrow called from outside a saga, with a sender and
\* a message of the caller's choosing; the record keeps the escrow_transfer
\* call it scheduled, if any.
OnTransferBy(caller, sender_id, msg) ==
    LET r == mt_on_transfer(caller, sender_id, msg)
    IN  /\ last' = [Call("mt_on_transfer", Failed(r.err))
                       EXCEPT !.ret = IF r.esc = NoEscrowCall THEN << >> ELSE <<r.esc>>]
        /\ UNCHANGED <<ledger, sagas>>

\* ---------------------------------------------------------------- inputs
\* The inputs the calls are tried with where sagas run.  A list of amounts
\* repeats one amount: of two lists of different lengths the calls read the
\* common prefix only.
SagaSupplies == {U128Max}
SagaTokenIds == 0..SagaTokens
SagaLists ==
    {<< << >>, << >> >>}
    \cup {<< << >>, <<a>> >> : a \in 1..U128Max}
    \cup {<< <<t>>, <<a>> >> : t \in 1..SagaTokens, a \in 1..U128Max}
    \cup {<< <<t, t>>, <<a>> >> : t \in 1..SagaTokens, a \in 1..U128Max}
    \cup {<< <<t>>, <<a, a>> >> : t \in 1..SagaTokens, a \in 1..U128Max}

Fail == Message("Fail", << >>, << >>, << >>)
Invalid == Message("Invalid", << >>, << >>, << >>)

\* The messages a transfer call of `amount` of `token_id` is tried with.  An
\* account that runs no contract never reads the message.
Messages(receiver_id, token_id, amount) ==
    IF receiver_id # Escrow THEN {Fail}
    ELSE LET one == <<token_id>>
             two == <<token_id, token_id>>
         IN  {Fail, Invalid,
              Message("Swap", one, <<amount>>, << >>),
              Message("SwapWithChange", one, <<amount>>, <<1>>),
              Message("SwapWithChange", two, <<amount>>, << >>)}
             \cup {Message("Swap", two, <<amount>>, << >>)}
             \cup {Message("SwapWithChange", two, <<amount>>, <<c>>) : c \in 0..1}
             \cup {Message("SwapWithChange", two, <<amount - 1>>, <<1>>)}

Next ==
    \/ \E c \in Users, o \in {Admin}, s \in SagaSupplies :
           next_token_id < SagaTokens /\ mt_mint(c, o, s)
    \/ \E c \in Users, t \in 1..SagaTokens, a \in 1..U128Max : \E r \in Accounts \ {c} :
           mt_transfer(c, r, t, a)
    \/ \E c \in Users, l \in SagaLists : \E r \in Accounts \ {c} :
           mt_batch_transfer(c, r, l[1], l[2])
    \/ \E c \in Users, l \in SagaLists : \E r \in Accounts \ {c} :
           escrow_transfer(c, r, l[1], l[2], Zeros(Len(l[2])))
    \/ \E c \in Users, t \in SagaTokenIds, a \in 1..U128Max : \E r \in Accounts \ {c} :
           \E m \in Messages(r, t, a) : mt_transfer_call(c, r, t, a, m)
    \/ \E c \in Users, r \in Users, a \in 0..1 :
           (r = c \/ a = 0) /\ mt_transfer_call(c, r, 1, a, Fail)
    \/ \E c \in Users, l \in SagaLists : \E r \in Accounts \ {c} :
           \E m \in Messages(r, IF l[1] = << >> THEN 1 ELSE l[1][1],
                                 IF l[2] = << >> THEN 1 ELSE l[2][1]) :
               mt_batch_transfer_call(c, r, l[1], l[2], m)
    \/ \E i \in 1..MaxSagas : Notify(i)
    \/ \E i \in 1..MaxSagas : EscrowStep(i)
    \/ \E i \in 1..MaxSagas : Settle(i)
    \/ \E c \in Accounts, s \in Users, t \in 1..SagaTokens :
           \E r \in Accounts \ {s} : ResolveBy(c, s, r, t, U128Max)
    \/ \E c \in Accounts, m \in {Invalid, Message("Swap", <<1, 1>>, <<U128Max>>, << >>)} :
           OnTransferBy(c, Admin, m)

Spec == Init /\ [][Next]_vars

\* The runtime delivers every scheduled promise: a saga in flight does not
\* wait for ever for its next step.
Step(i) == Notify(i) \/ EscrowStep(i) \/ Settle(i)

FairSpec == Spec /\ \A i \in 1..MaxSagas : WF_vars(Step(i))

\* ---------------------------------------------------------------- batches
\* The ledger alone, with every token the counter can issue and batches of up
\* to MaxLen pairs; no transfer call is made.
TokenIdLists == SeqsUpTo(1..MaxTokenId, MaxLen)
AmountLists == SeqsUpTo(1..U128Max, MaxLen)

NextBatch ==
    \/ \E c \in Users, o \in Users, s \in Amounts : mt_mint(c, o, s)
    \/ \E c \in Users, r \in Users, t \in TokenIds, a \in Amounts :
           mt_transfer(c, r, t, a)
    \/ \E c \in Users, r \in Users, ts \in TokenIdLists, as \in AmountLists :
           mt_batch_transfer(c, r, ts, as)

SpecBatch == Init /\ [][NextBatch]_vars

\* ---------------------------------------------------------------- queries
\* The view methods read the ledger and change nothing; the record of the call
\* keeps what they returned.
Returned(op, q) == [Call(op, Failed(q.err)) EXCEPT !.ret = q.ret]

\* The map(...).collect() of mt_batch_balance_of in the order asked, each
\* balance read as by internal_unwrap_balance_of, the first through its expect.
RECURSIVE BalancesFrom(_, _, _, _)
BalancesFrom(bpt, account_id, token_ids, i) ==
    IF i > Len(token_ids) THEN [err |-> "ok", ret |-> << >>]
    ELSE IF ~TokenExists(bpt, token_ids[i]) THEN [err |-> "TokenNotFound", ret |-> << >>]
    ELSE LET rest == BalancesFrom(bpt, account_id, token_ids, i + 1)
         IN  IF rest.err # "ok" THEN rest
             ELSE [err |-> "ok",
                   ret |-> <<internal_unwrap_balance_of(bpt, token_ids[i], account_id)>>
                           \o rest.ret]

\* mt_batch_balance_of that collects the balances last to first.
batch_balance_of_Reversed(bpt, account_id, token_ids) ==
    LET q == BalancesFrom(bpt, account_id, token_ids, 1)
    IN  [q EXCEPT !.ret = [i \in DOMAIN q.ret |-> q.ret[Len(q.ret) + 1 - i]]]

batch_balance_of(bpt, account_id, token_ids) ==
    BalancesFrom(bpt, account_id, token_ids, 1)

balance_of(bpt, account_id, token_id) ==
    IF ~TokenExists(bpt, token_id) THEN [err |-> "TokenNotFound", ret |-> << >>]
    ELSE [err |-> "ok", ret |-> <<internal_unwrap_balance_of(bpt, token_id, account_id)>>]

mt_balance_of(account_id, token_id) ==
    /\ last' = Returned("mt_balance_of", balance_of(balances_per_token, account_id, token_id))
    /\ UNCHANGED <<ledger, sagas>>

mt_batch_balance_of(account_id, token_ids) ==
    /\ last' = Returned("mt_batch_balance_of",
                        batch_balance_of(balances_per_token, account_id, token_ids))
    /\ UNCHANGED <<ledger, sagas>>

\* Option::None of from_index and of limit.
None == -1

\* `as usize` on a u128 or a u64: the low bits that fit.
AsUsize(n) == n % (MaxUsize + 1)

\* get_token: the Token of an id, its supply read from total_supply.
get_token(ts, owner, token_id) ==
    [token_id |-> token_id, owner_id |-> owner, supply |-> ts[token_id]]

\* owner_by_id.iter(): an UnorderedMap yields its entries in the order they
\* were inserted, nothing being removed; mt_mint inserts the ids 1, 2, ... in
\* this order.
Iter(obi) == [i \in 1..Cardinality(DOMAIN obi) |-> i]

\* mt_tokens: iter().skip(from_index as usize).take(limit as usize), None
\* being 0 and u64::MAX, which as usize is usize::MAX.
tokens(obi, ts, from_index, limit) ==
    LET skip == AsUsize(IF from_index = None THEN 0 ELSE from_index)
        take == IF limit = None THEN MaxUsize ELSE AsUsize(limit)
        n == Min(take, IF skip > Len(Iter(obi)) THEN 0 ELSE Len(Iter(obi)) - skip)
    IN  [i \in 1..n |-> get_token(ts, obi[Iter(obi)[skip + i]], Iter(obi)[skip + i])]

mt_tokens(from_index, limit) ==
    /\ last' = Returned("mt_tokens",
                        [err |-> "ok",
                         ret |-> tokens(owner_by_id, total_supply, from_index, limit)])
    /\ UNCHANGED <<ledger, sagas>>

\* set.iter() of a set of tokens_per_owner: an UnorderedSet yields its
\* elements in the order they were inserted, which for ids entered as they are
\* issued is the ascending order.
RECURSIVE SetIter(_)
SetIter(set) ==
    IF set = {} THEN << >>
    ELSE LET least == CHOOSE x \in set : \A y \in set : x <= y
         IN  <<least>> \o SetIter(set \ {least})

\* mt_tokens_for_owner: the set tokens_per_owner holds for the account, paged
\* as mt_tokens pages, each id with the account as its owner; the empty list
\* (unwrap_or_default) for an account tokens_per_owner has no set for.
tokens_for_owner(tpo, ts, account_id, from_index, limit) ==
    IF account_id \notin DOMAIN tpo THEN << >>
    ELSE LET ids == SetIter(tpo[account_id])
             skip == AsUsize(IF from_index = None THEN 0 ELSE from_index)
             take == IF limit = None THEN MaxUsize ELSE AsUsize(limit)
             n == Min(take, IF skip > Len(ids) THEN 0 ELSE Len(ids) - skip)
         IN  [i \in 1..n |-> get_token(ts, account_id, ids[skip + i])]

mt_tokens_for_owner(account_id, from_index, limit) ==
    /\ last' = Returned("mt_tokens_for_owner",
                        [err |-> "ok",
                         ret |-> tokens_for_owner(tokens_per_owner, total_supply,
                                                  account_id, from_index, limit)])
    /\ UNCHANGED <<ledger, sagas>>

\* The offsets and limits the lists are asked with: those usize holds and the
\* first beyond it, and None.
Indexes == {None} \cup 0..(MaxUsize + 2)

\* The ledger under its queries: the administrator mints, users transfer, and
\* anyone reads.
QueryLists == SeqsUpTo(TokenIds, MaxTokenId)

NextView ==
    \/ \E o \in Users, s \in Amounts : mt_mint(Admin, o, s)
    \/ \E c \in Users, r \in Accounts, t \in 1..MaxTokenId, a \in 1..U128Max :
           mt_transfer(c, r, t, a)
    \/ \E a \in Accounts, t \in TokenIds : mt_balance_of(a, t)
    \/ \E a \in Accounts, ts \in QueryLists : mt_batch_balance_of(a, ts)
    \/ \E f \in Indexes, l \in Indexes : mt_tokens(f, l)
    \/ \E a \in Accounts, f \in Indexes, l \in Indexes : mt_tokens_for_owner(a, f, l)

SpecView == Init /\ [][NextView]_vars

\* ---------------------------------------------------------------- claims
Sum(f) ==
    LET RECURSIVE Add(_)
        Add(S) == IF S = {} THEN 0
                  ELSE LET x == CHOOSE y \in S : TRUE IN f[x] + Add(S \ {x})
    IN  Add(DOMAIN f)

\* C1. Conservation: for every minted token the balances of all accounts sum
\* to the token's total supply, after every call and every step of a saga.
C1_Conservation ==
    /\ DOMAIN balances_per_token = DOMAIN total_supply
    /\ \A t \in DOMAIN total_supply : Sum(balances_per_token[t]) = total_supply[t]

\* A saga has settled after its escrow moved funds on: mint, transfer, the
\* Move, the escrow's transfer and the settlement have all acted.
C1_Witness ==
    /\ last.op = "mt_resolve_transfer" /\ last.err = "ok"
    /\ \E i \in DOMAIN sagas : sagas[i].stage = "done" /\ sagas[i].chain = "ok"
    /\ \E t \in DOMAIN balances_per_token :
           Cardinality({a \in DOMAIN balances_per_token[t] : balances_per_token[t][a] > 0}) > 1

\* C2. Non-negativity: no balance is ever negative; a transfer of a minted
\* token between two accounts whose amount exceeds the sender's balance is
\* rejected with InsufficientBalance and leaves every balance as it was.
C2_NonNegative ==
    /\ \A t \in DOMAIN balances_per_token : \A a \in DOMAIN balances_per_token[t] :
           balances_per_token[t][a] >= 0
    /\ \A c \in Accounts, r \in Accounts, t \in DOMAIN balances_per_token, a \in Amounts :
           (c # r /\ a > internal_unwrap_balance_of(balances_per_token, t, c))
               => LET o == internal_transfer(balances_per_token, c, r, t, a)
                  IN  /\ o.err = "InsufficientBalance"
                      /\ Commit(balances_per_token, o) = balances_per_token

\* A transfer of more than the sender holds has been rejected, the sender
\* holding some of the token.
C2_Witness ==
    /\ last.op = "mt_transfer" /\ last.err = "InsufficientBalance"
    /\ \E t \in DOMAIN balances_per_token : \E c \in Users :
           /\ internal_unwrap_balance_of(balances_per_token, t, c) > 0
           /\ internal_unwrap_balance_of(balances_per_token, t, c) < U128Max

\* What the Move of saga s took from the sender of the token of pair i.
Moved(s, i) ==
    LET RECURSIVE Add(_)
        Add(j) == IF j = 0 THEN 0
                  ELSE (IF s.token_ids[j] = s.token_ids[i] THEN s.amounts[j] ELSE 0)
                       + Add(j - 1)
    IN  Add(Min(Len(s.token_ids), Len(s.amounts)))

\* Since the Move no call but the saga's own has changed the sender's or the
\* receiver's balance of a token of the saga.
Undisturbed(s) ==
    \A i \in Pairs(s.token_ids, s.amounts) :
        /\ internal_unwrap_balance_of(balances_per_token, s.token_ids[i], s.sender)
               = s.pre_s[i] - Moved(s, i)
        /\ internal_unwrap_balance_of(balances_per_token, s.token_ids[i], s.receiver)
               = s.pre_r[i] + Moved(s, i)

\* C3. Saga full reversal: a transfer call whose notification fails, or whose
\* receiver's sub-call fails, reaches its settlement with a failed chain; the
\* settlement then succeeds, and when no other call has touched the sender's
\* and the receiver's balances since the Move it leaves both, for every token
\* of the call, at their values before the call.
C3_FullReversal ==
    \A i \in DOMAIN sagas :
        LET s == sagas[i]
            r == mt_resolve_transfer(Ledger, balances_per_token, s)
        IN  /\ (last.saga = i /\ last.op \in {"mt_on_transfer", "escrow_transfer"}
                              /\ last.err # "ok")
                   => (s.stage = "settle" /\ s.chain = "failed")
            /\ (s.stage = "settle" /\ s.chain = "failed")
                   => /\ r.err = "ok"
                      /\ Undisturbed(s) =>
                             \A p \in Pairs(s.token_ids, s.amounts) :
                                /\ internal_unwrap_balance_of(r.bpt, s.token_ids[p], s.sender)
                                       = s.pre_s[p]
                                /\ internal_unwrap_balance_of(r.bpt, s.token_ids[p], s.receiver)
                                       = s.pre_r[p]

\* The settlement of a saga whose chain failed has given the whole amount
\* back: the receiver keeps nothing of the one pair of the call.
C3_Witness ==
    /\ last.op = "mt_resolve_transfer" /\ last.err = "ok" /\ last.saga >= 1
    /\ last.ret = <<0>>
    /\ sagas[last.saga].stage = "done" /\ sagas[last.saga].chain = "failed"

\* The token of pair p is the token of no other pair of saga s.
Alone(s, p) ==
    \A q \in Pairs(s.token_ids, s.amounts) : s.token_ids[q] = s.token_ids[p] => q = p

\* C4. Saga partial reversal end to end: when the escrow's onward call carries
\* the lists of the transfer call and, list for list of the same length, a
\* change c_i <= amount_i, the onward transfer succeeds and the settlement
\* returns c_i to the sender and reports amount_i - c_i as passed on.
C4_PartialReversal ==
    \A i \in DOMAIN sagas :
        LET s == sagas[i]
            e == s.esc
            r == mt_resolve_transfer(Ledger, balances_per_token, s)
        IN  (/\ s.stage = "settle" /\ s.log = <<"move", "notify", "escrow">>
             /\ e.token_ids = s.token_ids /\ e.amounts = s.amounts
             /\ Len(e.token_ids) = Len(e.amounts)
             /\ Len(e.change_amounts) = Len(e.amounts)
             /\ \A p \in DOMAIN e.amounts : e.change_amounts[p] <= e.amounts[p])
            => /\ s.chain = "ok"
               /\ r.err = "ok"
               /\ r.ret = [p \in DOMAIN e.amounts |-> e.amounts[p] - e.change_amounts[p]]
               /\ \A p \in DOMAIN e.amounts :
                      Alone(s, p) =>
                          internal_unwrap_balance_of(r.bpt, s.token_ids[p], s.sender)
                              = internal_unwrap_balance_of(balances_per_token,
                                                           s.token_ids[p], s.sender)
                                + e.change_amounts[p]

\* What resolve_transfer is to do with pair p of saga s for an unused amount u:
\* move u from the receiver to the sender and return amount - u.
Reverses(s, p, u, r) ==
    /\ r.err = "ok"
    /\ internal_unwrap_balance_of(r.bpt, s.token_ids[p], s.sender)
           = internal_unwrap_balance_of(balances_per_token, s.token_ids[p], s.sender) + u
    /\ internal_unwrap_balance_of(r.bpt, s.token_ids[p], s.receiver)
           = internal_unwrap_balance_of(balances_per_token, s.token_ids[p], s.receiver) - u
    /\ r.ret[p] = s.amounts[p] - u

\* The pairs of saga s, about to settle after a chain that succeeded, for which
\* the chain reported an unused amount within the amount transferred.
Reported(s) ==
    IF s.stage = "settle" /\ s.chain = "ok"
    THEN {p \in Pairs(s.token_ids, s.amounts) :
             p <= Len(s.unused) /\ s.unused[p] <= s.amounts[p] /\ Alone(s, p)}
    ELSE {}

C6_Order ==
    \A i \in DOMAIN sagas :
        LET s == sagas[i]
        IN  /\ s.stage = "notify" => (s.log = <<"move">> /\ s.chain = "pending")
            /\ s.stage = "escrow" => (s.log = <<"move", "notify">> /\ s.chain = "pending")
            /\ s.stage = "settle" =>
                   /\ s.log \in {<<"move", "notify">>, <<"move", "notify", "escrow">>}
                   /\ s.chain \in {"ok", "failed"}
            /\ s.stage = "done" =>
                   /\ s.log \in {<<"move", "notify", "resolve">>,
                                  <<"move", "notify", "escrow", "resolve">>}
                   /\ s.chain \in {"ok", "failed"}

\* C6. Saga ordering: in every saga the Move comes before the notification,
\* the notification chain ends before resolve_transfer runs, resolve_transfer
\* runs once and no more, after a chain that succeeded as after one that
\* failed, and every saga in flight comes to its resolve_transfer.
C6_SagaOrdering ==
    /\ []C6_Order
    /\ \A i \in 1..MaxSagas :
           (i \in DOMAIN sagas /\ InFlight(sagas[i]))
               ~> (i \in DOMAIN sagas /\ sagas[i].stage = "done")

\* Both a saga whose chain succeeded and, before it, the resolve_transfer of
\* one whose chain failed: here the one that succeeded through a sub-call.
C6_Witness ==
    /\ last.op = "mt_resolve_transfer" /\ last.saga >= 1
    /\ sagas[last.saga].log = <<"move", "notify", "escrow", "resolve">>
    /\ sagas[last.saga].chain = "ok"

\* C7. Settlement authorization: resolve_transfer called by any account other
\* than the ledger itself, whatever its arguments, is rejected and changes no
\* balance; a resolve_transfer that ran is the continuation of a saga.
C7_SelfOnly ==
    /\ \A c \in Accounts, s \in Accounts, r \in Accounts,
          t \in DOMAIN balances_per_token, a \in Amounts :
           LET o == mt_resolve_transfer(c, balances_per_token, Request(s, r, t, a))
           IN  o.err = "Unauthorized" /\ o.bpt = balances_per_token
    /\ (last.op = "mt_resolve_transfer" /\ last.err = "ok")
           => (last.saga \in DOMAIN sagas /\ sagas[last.saga].stage = "done")
    /\ (last.op = "mt_resolve_transfer" /\ last.saga = 0) => last.err = "Unauthorized"

\* An account has called resolve_transfer and been rejected, while an account
\* other than the owner of the token held funds the call asked to move.
C7_Witness ==
    /\ last.op = "mt_resolve_transfer" /\ last.err = "Unauthorized" /\ last.saga = 0
    /\ \E t \in DOMAIN balances_per_token : \E r \in Accounts \ {owner_by_id[t]} :
           internal_unwrap_balance_of(balances_per_token, t, r) > 0

\* C8. Batch mismatch rejection: batch_transfer with a token-id list and an
\* amount list of different lengths fails with MismatchedLengths and leaves
\* every balance unchanged.
C8_MismatchRejected ==
    \A c \in Users, r \in Users, ts \in TokenIdLists, as \in AmountLists :
        (c # r /\ Len(ts) # Len(as))
            => LET o == batch_transfer(balances_per_token, c, r, ts, as)
               IN  /\ o.err = "MismatchedLengths"
                   /\ Commit(balances_per_token, o) = balances_per_token

\* transfer(sender, receiver, token_i, amount_i) once per pair from pair i on,
\* each a call of its own.
RECURSIVE Transfers(_, _, _, _, _, _)
Transfers(bpt, sender_id, receiver_id, token_ids, amounts, i) ==
    IF i > Len(token_ids) THEN Outcome("ok", bpt, i - 1)
    ELSE LET o == internal_transfer(bpt, sender_id, receiver_id, token_ids[i], amounts[i])
         IN  IF o.err # "ok" THEN Outcome(o.err, bpt, i - 1)
             ELSE Transfers(Commit(bpt, o), sender_id, receiver_id, token_ids, amounts, i + 1)

\* C9. Batch success: batch_transfer with lists of one length, each pair a
\* valid transfer when applied in order, succeeds and leaves the ledger that
\* transfer applied once per pair, in list order, leaves.
C9_BatchSuccess ==
    \A c \in Users, r \in Users, ts \in TokenIdLists, as \in AmountLists :
        LET seq == Transfers(balances_per_token, c, r, ts, as, 1)
            o == batch_transfer(balances_per_token, c, r, ts, as)
        IN  (Len(ts) = Len(as) /\ Len(ts) >= 1 /\ seq.err = "ok")
                => (o.err = "ok" /\ Commit(balances_per_token, o) = seq.bpt)

\* C10. Batch atomicity: a batch_transfer that fails, at whichever pair,
\* leaves the ledger as it was before the call, the balances its earlier pairs
\* had written included.
C10_Atomic ==
    [][(last'.op = "mt_batch_transfer" /\ last'.err # "ok") => UNCHANGED ledger]_vars

\* A batch has failed after its first pair or pairs had been applied.
C10_Witness ==
    /\ last.op = "mt_batch_transfer" /\ last.err = "InsufficientBalance"
    /\ last.k >= 1

\* A call of mint by an account that is not the administrator ends with
\* Unauthorized, and a mint that ends with Unauthorized leaves every field.
C11_Rejected ==
    /\ \A c \in Accounts \ {owner_id}, o \in Users, s \in Amounts :
           mt_mint(c, o, s) => (last'.err = "Unauthorized")
    /\ (last'.op = "mt_mint" /\ last'.err = "Unauthorized")
           => UNCHANGED <<ledger, sagas>>

\* C11. Mint authorization: mint called by any account other than the
\* administrator fails with Unauthorized and changes nothing: no token id is
\* consumed and no supply, owner or balance entry is created.
C11_MintAuthorization == [][C11_Rejected]_vars

\* A mint has been rejected as unauthorized on a ledger that had issued a
\* token and could issue another.
C11_Witness ==
    /\ last.op = "mt_mint" /\ last.err = "Unauthorized"
    /\ next_token_id >= 1 /\ next_token_id < U64Max

\* What a mint of `supply` for `owner` by the administrator does in one step:
\* with the counter exhausted it fails and changes nothing; otherwise it
\* issues the id the counter now shows, which no map knew, with its supply,
\* its owner, the whole supply on the owner's account and 0 on every other.
C12_Minted(owner, supply) ==
    IF next_token_id = U64Max
    THEN last'.err = "CounterOverflow" /\ UNCHANGED ledger
    ELSE LET id == next_token_id'
         IN  /\ last'.err = "ok"
             /\ id \notin DOMAIN total_supply \cup DOMAIN owner_by_id
                              \cup DOMAIN balances_per_token
             /\ total_supply'[id] = supply
             /\ owner_by_id'[id] = owner
             /\ internal_unwrap_balance_of(balances_per_token', id, owner) = supply
             /\ \A a \in Accounts \ {owner} :
                    internal_unwrap_balance_of(balances_per_token', id, a) = 0

C12_Step ==
    \A o \in Users, s \in Amounts : mt_mint(owner_id, o, s) => C12_Minted(o, s)

\* C12. Mint effect: a successful mint(owner, supply) issues a token id that
\* was not minted before, with total_supply[id] = supply, owner_by_id[id] =
\* owner, the owner's balance of id = supply and every other account's 0; a
\* mint with the id counter exhausted fails with CounterOverflow.
C12_MintEffect == [][C12_Step]_vars

\* The second token has been minted, for another owner than the first, with a
\* supply that is not 0.
C12_Witness ==
    /\ last.op = "mt_mint" /\ last.err = "ok" /\ next_token_id = 2
    /\ owner_by_id[2] # owner_by_id[1] /\ total_supply[2] > 0

\* The ids issued so far are 1 .. next_token_id, each with a supply entry, an
\* owner entry and a balance map of its own.
C13_Issued ==
    /\ DOMAIN total_supply = 1..next_token_id
    /\ DOMAIN owner_by_id = 1..next_token_id
    /\ DOMAIN balances_per_token = 1..next_token_id

\* One call: the counter does not go down; a call that fails leaves it; a
\* mint that succeeds issues an id above every id issued before and leaves
\* the supply, the owner and the balance map of every earlier token.
C13_Call ==
    /\ next_token_id' >= next_token_id
    /\ (last'.err # "ok") => (next_token_id' = next_token_id)
    /\ (last'.op = "mt_mint" /\ last'.err = "ok")
           => /\ next_token_id' > next_token_id
              /\ next_token_id' \notin DOMAIN total_supply
              /\ \A t \in DOMAIN total_supply :
                     /\ total_supply'[t] = total_supply[t]
                     /\ owner_by_id'[t] = owner_by_id[t]
                     /\ balances_per_token'[t] = balances_per_token[t]

\* C13. Token id uniqueness: over any sequence of calls, failed mints and
\* failed transfers among them, next_token_id never decreases, a successful
\* mint issues an id different from every id issued before, and the tokens
\* minted each have a supply entry and a balance map of their own.
C13_Uniqueness == []C13_Issued /\ [][C13_Call]_vars

\* Two tokens of different supplies have been minted and a third mint has
\* failed on the exhausted counter.
C13_Witness ==
    /\ last.op = "mt_mint" /\ last.err = "CounterOverflow"
    /\ next_token_id = 2 /\ total_supply[1] # total_supply[2]

\* transfer(sender, receiver, token, amount) on the balances bpt is rejected
\* with the error of the first check that fails, and a transfer rejected with
\* one of the four errors leaves bpt.
C14_Rejects(bpt, sender_id, receiver_id, token_id, amount) ==
    LET o == internal_transfer(bpt, sender_id, receiver_id, token_id, amount)
    IN  /\ (sender_id = receiver_id) => (o.err = "SameAccount")
        /\ (sender_id # receiver_id /\ amount = 0) => (o.err = "ZeroAmount")
        /\ (sender_id # receiver_id /\ amount > 0 /\ ~TokenExists(bpt, token_id))
               => (o.err = "TokenNotFound")
        /\ (/\ sender_id # receiver_id /\ amount > 0 /\ TokenExists(bpt, token_id)
            /\ internal_unwrap_balance_of(bpt, token_id, sender_id) >= amount
            /\ internal_unwrap_balance_of(bpt, token_id, receiver_id) + amount > U128Max)
               => (o.err = "Overflow")
        /\ (o.err \in {"SameAccount", "ZeroAmount", "TokenNotFound", "Overflow"})
               => (Commit(bpt, o) = bpt)

\* Balances of token 1 that no minted supply adds up to: x with alice, y
\* with bob.
C14_Balances(x, y) == 1 :> (("alice" :> x) @@ ("bob" :> y))

\* C14. Transfer validation: a transfer fails with SameAccount when sender =
\* receiver, else with ZeroAmount when amount = 0, else with TokenNotFound
\* when the token was never minted, and with Overflow when the credit would
\* take the receiver past the top of u128; each time the ledger is left as it
\* was.  Held on the ledgers the calls reach and, for the overflow, which no
\* minted supply reaches, on any two balances.
C14_Validation ==
    /\ \A c \in Users, r \in Users, t \in TokenIds, a \in Amounts :
           C14_Rejects(balances_per_token, c, r, t, a)
    /\ \A x \in Amounts, y \in Amounts, a \in Amounts :
           C14_Rejects(C14_Balances(x, y), "alice", "bob", 1, a)

\* A transfer of a minted token to the sender's own account has been rejected,
\* the sender holding funds.
C14_Witness ==
    /\ last.op = "mt_transfer" /\ last.err = "SameAccount"
    /\ \E t \in DOMAIN balances_per_token : \E c \in Users :
           internal_unwrap_balance_of(balances_per_token, t, c) > 0

\* C15. Balance query: balance_of(token, account) returns the recorded amount,
\* 0 for an account with no entry for a minted token, and fails with
\* TokenNotFound for a token never minted; batch_balance_of(account, ids)
\* returns one balance per id, in the order of the ids.
C15_BalanceQuery ==
    /\ \A a \in Accounts, t \in TokenIds :
           LET q == balance_of(balances_per_token, a, t)
           IN  IF t \in DOMAIN total_supply
               THEN /\ q.err = "ok"
                    /\ q.ret = <<IF a \in DOMAIN balances_per_token[t]
                                 THEN balances_per_token[t][a] ELSE 0>>
               ELSE q.err = "TokenNotFound"
    /\ \A a \in Accounts, ts \in QueryLists :
           (\A i \in DOMAIN ts : ts[i] \in DOMAIN total_supply)
               => LET q == batch_balance_of(balances_per_token, a, ts)
                  IN  /\ q.err = "ok"
                      /\ Len(q.ret) = Len(ts)
                      /\ \A i \in DOMAIN ts :
                             <<q.ret[i]>> = balance_of(balances_per_token, a, ts[i]).ret

\* Of two minted tokens an account holds part of the first and has no entry
\* for the second, and a batch query has returned that part and 0.
C15_Witness ==
    /\ last.op = "mt_batch_balance_of" /\ last.err = "ok" /\ last.ret = <<1, 0>>
    /\ next_token_id = 2
    /\ \E a \in Accounts :
           /\ internal_unwrap_balance_of(balances_per_token, 1, a) = 1
           /\ a \notin DOMAIN balances_per_token[2]

\* The minted tokens in mint order.
C16_Minted ==
    [i \in 1..next_token_id |-> get_token(total_supply, owner_by_id[i], i)]

\* The tokens at the positions offset .. offset + limit - 1 of C16_Minted, the
\* first position being 0; no limit is every position from offset on.
C16_Window(offset, limit) ==
    LET n == IF offset >= Len(C16_Minted) THEN 0
             ELSE IF limit = None THEN Len(C16_Minted) - offset
             ELSE Min(limit, Len(C16_Minted) - offset)
    IN  [i \in 1..n |-> C16_Minted[offset + i]]

\* C16. Pagination: list_tokens(offset, limit) returns the tokens at the
\* positions offset .. offset + limit - 1 of the minted tokens in mint order,
\* whoever holds them; offset defaults to 0 and limit to no limit.
C16_Pagination ==
    \A f \in Indexes, l \in Indexes :
        tokens(owner_by_id, total_supply, f, l)
            = C16_Window(IF f = None THEN 0 ELSE f, l)

\* C17. Escrow caller validation: on_transfer of the escrow called by any
\* account other than the ledger, whatever the message, one that does not
\* parse included, fails with UntrustedCaller and schedules no
\* escrow_transfer call.
C17_UntrustedCaller ==
    /\ \A c \in Accounts, s \in Users :
           \A m \in Messages(Escrow, 1, U128Max) :
               mt_on_transfer(c, s, m) = [err |-> "UntrustedCaller", esc |-> NoEscrowCall]
    /\ (last.op = "mt_on_transfer" /\ last.saga = 0)
           => (last.err = "UntrustedCaller" /\ last.ret = << >>)

\* An account has called the escrow's on_transfer itself and been rejected,
\* while the escrow held funds an instruction could have moved on.
C17_Witness ==
    /\ last.op = "mt_on_transfer" /\ last.saga = 0 /\ last.err = "UntrustedCaller"
    /\ \E t \in DOMAIN balances_per_token :
           internal_unwrap_balance_of(balances_per_token, t, Escrow) > 0

\* C18. Swap: when the escrow's onward call carries the token ids and the
\* amounts of the transfer call, list for list of the same length, and no
\* change, the onward transfer out of the escrow's account succeeds, the chain
\* reports 0 unused for every token, and the settlement gives nothing back
\* to the sender: it returns the amounts transferred as kept.
C18_Swap ==
    \A i \in DOMAIN sagas :
        LET s == sagas[i]
            e == s.esc
            r == mt_resolve_transfer(Ledger, balances_per_token, s)
        IN  (/\ s.stage = "settle" /\ s.log = <<"move", "notify", "escrow">>
             /\ e.token_ids = s.token_ids /\ e.amounts = s.amounts
             /\ Len(e.token_ids) = Len(e.amounts)
             /\ e.change_amounts = Zeros(Len(e.amounts)))
            => /\ s.chain = "ok"
               /\ s.unused = Zeros(Len(s.amounts))
               /\ r.err = "ok"
               /\ r.ret = s.amounts
               /\ \A p \in DOMAIN s.amounts :
                      internal_unwrap_balance_of(r.bpt, s.token_ids[p], s.sender)
                          = internal_unwrap_balance_of(balances_per_token,
                                                       s.token_ids[p], s.sender)

\* What a transfer of `amount` of `token_id` from `sender_id` to `receiver_id`
\* that succeeded has done in one step.
C19_Moved(sender_id, receiver_id, token_id, amount) ==
    /\ internal_unwrap_balance_of(balances_per_token', token_id, sender_id)
           = internal_unwrap_balance_of(balances_per_token, token_id, sender_id) - amount
    /\ internal_unwrap_balance_of(balances_per_token', token_id, receiver_id)
           = internal_unwrap_balance_of(balances_per_token, token_id, receiver_id) + amount
    /\ \A x \in Accounts \ {sender_id, receiver_id} :
           internal_unwrap_balance_of(balances_per_token', token_id, x)
               = internal_unwrap_balance_of(balances_per_token, token_id, x)
    /\ DOMAIN balances_per_token' = DOMAIN balances_per_token
    /\ \A u \in DOMAIN balances_per_token \ {token_id} :
           balances_per_token'[u] = balances_per_token[u]
    /\ UNCHANGED <<owner_id, total_supply, owner_by_id, tokens_per_owner, next_token_id>>

C19_Step ==
    (last'.op = "mt_transfer" /\ last'.err = "ok")
        => \A c \in Users, r \in Accounts, t \in TokenIds, a \in Amounts :
               mt_transfer(c, r, t, a) => C19_Moved(c, r, t, a)

\* C19. Transfer effect and frame: a successful transfer(sender, receiver,
\* token, amount) takes exactly amount from the sender's balance of the token
\* and adds exactly amount to the receiver's, and leaves every other account's
\* balance of the token, every balance of every other token, every
\* total_supply and owner_by_id entry and next_token_id.
C19_TransferFrame == [][C19_Step]_vars

\* A transfer has succeeded on a ledger of two tokens, one of them held by
\* the escrow and by bob, one of them minted for bob.
C19_Witness ==
    /\ last.op = "mt_transfer" /\ last.err = "ok" /\ next_token_id = 2
    /\ \E t \in DOMAIN balances_per_token :
           /\ internal_unwrap_balance_of(balances_per_token, t, Escrow) > 0
           /\ internal_unwrap_balance_of(balances_per_token, t, "bob") > 0
    /\ \E t \in DOMAIN balances_per_token : total_supply[t] > 0
                                              /\ owner_by_id[t] = "bob"

C22_OnlyFrom(caller) ==
    \A t \in DOMAIN balances_per_token : \A x \in Accounts \ {caller} :
        internal_unwrap_balance_of(balances_per_token', t, x)
            >= internal_unwrap_balance_of(balances_per_token, t, x)

\* The five methods, and a call of one of them that moved funds: whichever
\* the account c, either no account but c was debited or the call is no call
\* by c, whatever its arguments.  The escrow_transfer of a saga is called by
\* the escrow.
C22_Methods ==
    {"mt_transfer", "mt_batch_transfer", "mt_transfer_call", "mt_batch_transfer_call",
     "escrow_transfer"}

C22_Call ==
    /\ (last'.op = "mt_transfer") =>
           \A c \in Users :
               \/ C22_OnlyFrom(c)
               \/ \A r \in Accounts, t \in TokenIds, a \in Amounts : ~mt_transfer(c, r, t, a)
    /\ (last'.op = "mt_batch_transfer") =>
           \A c \in Users :
               \/ C22_OnlyFrom(c)
               \/ \A r \in Accounts, l \in SagaLists : ~mt_batch_transfer(c, r, l[1], l[2])
    /\ (last'.op = "escrow_transfer" /\ last'.saga = 0) =>
           \A c \in Users :
               \/ C22_OnlyFrom(c)
               \/ \A r \in Accounts, l \in SagaLists :
                      ~escrow_transfer(c, r, l[1], l[2], Zeros(Len(l[2])))
    /\ (last'.op = "escrow_transfer" /\ last'.saga # 0) =>
           \A i \in 1..MaxSagas : EscrowStep(i) => C22_OnlyFrom(Escrow)
    /\ (last'.op = "mt_transfer_call") =>
           \A c \in Users :
               \/ C22_OnlyFrom(c)
               \/ \A r \in Accounts, t \in TokenIds, a \in Amounts :
                      \A m \in Messages(r, t, a) : ~mt_transfer_call(c, r, t, a, m)
    /\ (last'.op = "mt_batch_transfer_call") =>
           \A c \in Users :
               \/ C22_OnlyFrom(c)
               \/ \A r \in Accounts, l \in SagaLists :
                      \A m \in Messages(r, IF l[1] = << >> THEN 1 ELSE l[1][1],
                                            IF l[2] = << >> THEN 1 ELSE l[2][1]) :
                          ~mt_batch_transfer_call(c, r, l[1], l[2], m)

\* A call that failed moved nothing; one that succeeded took from its caller.
C22_Step ==
    (last'.op \in C22_Methods) =>
        IF last'.err # "ok" THEN UNCHANGED balances_per_token ELSE C22_Call

\* C22. Only the caller's funds are debited: in the call of transfer,
\* batch_transfer, transfer_call, batch_transfer_call or escrow_transfer no
\* account but the calling account holds less of any token after the call
\* than before it, whatever the arguments; escrow_transfer called by any
\* account moves that account's own balance and no other.
C22_CallerDebited == [][C22_Step]_vars

\* An account other than the escrow has called escrow_transfer itself and
\* paid out of its own balance, while another account held funds too.
C22_Witness ==
    /\ last.op = "escrow_transfer" /\ last.saga = 0 /\ last.err = "ok" /\ last.k >= 1
    /\ \E t \in DOMAIN balances_per_token :
           Cardinality({x \in Accounts :
                           internal_unwrap_balance_of(balances_per_token, t, x) > 0}) > 1

C23_TransferCalls == {"mt_transfer_call", "mt_batch_transfer_call"}

\* One call of transfer_call or batch_transfer_call whose Move failed: the
\* call has failed, it names no saga, and it leaves the ledger and the
\* promise chains as they were.
C23_Call ==
    (last'.op \in C23_TransferCalls /\ last'.err # "ok")
        => (last'.saga = 0 /\ UNCHANGED <<ledger, sagas>>)

\* Every promise chain there is begins with a Move; the chain a transfer call
\* has just scheduled is about to notify, and the sender and the receiver hold
\* what they held before the call less and plus what its pairs moved; a
\* notification or a settlement the runtime has delivered is that of a chain.
C23_Chains ==
    /\ \A i \in DOMAIN sagas : sagas[i].log[1] = "move"
    /\ (last.op \in C23_TransferCalls /\ last.err = "ok")
           => /\ last.saga \in DOMAIN sagas
              /\ sagas[last.saga].stage = "notify"
              /\ Undisturbed(sagas[last.saga])
    /\ (last.op \in C23_TransferCalls /\ last.err # "ok") => (last.saga = 0)
    /\ (last.op = "mt_resolve_transfer" /\ last.err = "ok")
           => (last.saga \in DOMAIN sagas /\ sagas[last.saga].log[1] = "move")

\* C23. No saga without a Move: a transfer_call or batch_transfer_call whose
\* synchronous Move fails (same account, zero amount, unknown token,
\* insufficient balance, length check) fails with the ledger unchanged and
\* schedules neither an on_transfer notification nor a resolve_transfer
\* settlement, so every settlement that runs is that of a chain whose Move
\* moved the funds.
C23_NoSagaWithoutMove == []C23_Chains /\ [][C23_Call]_vars

\* A transfer call has failed on its Move for want of balance, on a ledger
\* whose funds are shared between accounts, and no promise chain exists.
C23_Witness ==
    /\ last.op \in C23_TransferCalls /\ last.err = "InsufficientBalance"
    /\ sagas = << >>
    /\ \E t \in DOMAIN balances_per_token :
           Cardinality({x \in Accounts :
                           internal_unwrap_balance_of(balances_per_token, t, x) = 1}) = 2

\* What the vectors of saga s announce of token t: the sum of the amounts of
\* the pairs that name t, the vectors being of one length.
C24_Announced(s, t) ==
    LET RECURSIVE Add(_)
        Add(j) == IF j = 0 THEN 0
                  ELSE (IF s.token_ids[j] = t THEN s.amounts[j] ELSE 0) + Add(j - 1)
    IN  Add(Len(s.token_ids))

\* C24. Notify/Settle describe exactly what was moved: after every
\* batch_transfer_call whose Move succeeded, the token ids and the amounts the
\* promise chain carries to on_transfer and to resolve_transfer have the same
\* length and, token by token, add up to what the Move took from the sender
\* and gave to the receiver.
C24_VectorsMatchMove ==
    (last.op = "mt_batch_transfer_call" /\ last.err = "ok")
        => LET s == sagas[last.saga]
           IN  /\ Len(s.token_ids) = Len(s.amounts)
               /\ \A p \in DOMAIN s.token_ids :
                      /\ C24_Announced(s, s.token_ids[p])
                             = s.pre_s[p] - internal_unwrap_balance_of(
                                                balances_per_token, s.token_ids[p], s.sender)
                      /\ C24_Announced(s, s.token_ids[p])
                             = internal_unwrap_balance_of(
                                   balances_per_token, s.token_ids[p], s.receiver)
                               - s.pre_r[p]

====
